---- MODULE Spec2Model ----
(***************************************************************************)
(* Model of main.py: the ResearchMonitor class (three source adapters, the *)
(* digest composer, the notifier) and the __main__ run that chains them.   *)
(*                                                                         *)
(* Strings are sequences of tokens.  A title is a sequence over Chars      *)
(* ("a" a letter, "SP" a space, "NL" a newline); a fixed literal of the    *)
(* program is a single token holding the literal.  Python's None is the    *)
(* value None below, an element that find() does not find is Missing.      *)
(* Time is counted in ticks, TicksPerDay ticks to a calendar day.          *)
(***************************************************************************)
EXTENDS Integers, Sequences, FiniteSets

VARIABLES pc, call, args, ret, env, client_ok, all_papers, returned,
          digest, prompt, llm_calls, mail_log, http_log, exit_status

vars == <<pc, call, args, ret, env, client_ok, all_papers, returned,
          digest, prompt, llm_calls, mail_log, http_log, exit_status>>

(* ---------------------------- bounds ---------------------------------- *)

MaxTitleLen == 3
MaxItems == 2
TicksPerDay == 2
NowDay == 9
MaxPapers == 41

(* ----------------------- program constants ---------------------------- *)

DaysBack == 7
ListingCap == 40
SsrnMaxResults == 50
RepecMaxItems == 10
SummaryMaxLen == 500
HttpOk == 200

working_paper_series ==
    << <<"RePEc", "nbr", "nberwo">>, <<"RePEc", "cpr", "ceprdp">>,
       <<"RePEc", "iza", "izadps">>, <<"RePEc", "wrk", "warwec">>,
       <<"RePEc", "oxf", "wpaper">> >>

FOCUS == "Heterodox economics, development macroeconomics, and Indian political economy."

(* ------------------------ values and strings -------------------------- *)

None == [isNone |-> TRUE, s |-> <<>>]
Str(s) == [isNone |-> FALSE, s |-> s]

Missing == [present |-> FALSE, text |-> None, attrib |-> None]
Elem(t) == [present |-> TRUE, text |-> t, attrib |-> None]
ElemAttr(t, a) == [present |-> TRUE, text |-> t, attrib |-> a]

Chars == {"a", "SP", "NL"}
Whitespace == {"SP", "NL"}

SeqsUpTo(S, n) == UNION {[1..k -> S] : k \in 0..n}

Min(a, b) == IF a <= b THEN a ELSE b

\* s[:n]
Prefix(s, n) == SubSeq(s, 1, Min(Len(s), n))

RECURSIVE LStrip(_)
LStrip(s) == IF s # <<>> /\ Head(s) \in Whitespace THEN LStrip(Tail(s)) ELSE s

RECURSIVE RStrip(_)
RStrip(s) ==
    IF s # <<>> /\ s[Len(s)] \in Whitespace
    THEN RStrip(SubSeq(s, 1, Len(s) - 1)) ELSE s

\* str.strip()
Strip(s) == RStrip(LStrip(s))

\* str.replace('\n', ' ')
ReplaceNewlines(s) == [i \in DOMAIN s |-> IF s[i] = "NL" THEN "SP" ELSE s[i]]

\* Python truthiness of an optional string
Truthy(t) == ~t.isNone /\ t.s # <<>>

RECURSIVE Concat(_)
Concat(ss) == IF ss = <<>> THEN <<>> ELSE Head(ss) \o Concat(Tail(ss))

\* what a call hands back to its caller: a value, or an exception
Return(v) == [raised |-> FALSE, value |-> v]
Raise == [raised |-> TRUE, value |-> <<>>]

(* ------------------------------ arXiv --------------------------------- *)

\* datetime.now() - timedelta(days=days_back)
StartDate(now, days_back) == now - days_back * TicksPerDay

\* datetime.strptime(published[:10], '%Y-%m-%d'): a timestamp is <<day, tick
\* of the day>>, its first ten characters are the day, and the parsed
\* datetime is midnight of that day.  A day below 0 stands for text that
\* is no date.
DateParses(published) == published # <<>> /\ published[1] >= 0
PubDate(published) == Prefix(published, 1)[1] * TicksPerDay

\* the body of the per-entry try: TRUE when it raises
ArxivEntryRaises(entry, start_date) ==
    \/ ~entry.published.present
    \/ entry.published.text.isNone
    \/ ~DateParses(entry.published.text.s)
    \/ /\ PubDate(entry.published.text.s) >= start_date
       /\ \/ ~entry.title.present
          \/ entry.title.text.isNone
          \/ ~entry.summary.present
          \/ entry.summary.text.isNone
          \/ ~entry.id.present

ArxivCategory(entry) ==
    IF entry.primary_category.present /\ ~entry.primary_category.attrib.isNone
    THEN entry.primary_category.attrib.s
    ELSE <<"Econ">>

ArxivRecord(entry) ==
    [title |-> Str(ReplaceNewlines(Strip(entry.title.text.s))),
     summary |-> Str(ReplaceNewlines(Strip(entry.summary.text.s))),
     link |-> entry.id.text,
     source |-> Str(<<"arXiv (">> \o ArxivCategory(entry) \o <<")">>)]

\* one iteration of the loop over the feed's entries: the records appended
ArxivEntry(entry, start_date) ==
    IF ArxivEntryRaises(entry, start_date) THEN <<>>
    ELSE IF PubDate(entry.published.text.s) >= start_date
         THEN <<ArxivRecord(entry)>>
         ELSE <<>>

ArxivEntries(items, start_date) ==
    Concat([i \in DOMAIN items |-> ArxivEntry(items[i], start_date)])

\* search_arxiv without its outer try: a transport error or a body that
\* does not parse reaches the caller
search_arxiv_unguarded(response, now, days_back) ==
    IF response.error THEN Raise
    ELSE IF response.status_code # HttpOk THEN Return(<<>>)
    ELSE IF ~response.parses THEN Raise
    ELSE Return(ArxivEntries(response.items, StartDate(now, days_back)))

search_arxiv(response, now, days_back) ==
    IF response.error THEN Return(<<>>)
    ELSE IF response.status_code # HttpOk THEN Return(<<>>)
    ELSE IF ~response.parses THEN Return(<<>>)
    ELSE Return(ArxivEntries(response.items, StartDate(now, days_back)))

(* ------------------------------- SSRN --------------------------------- *)

SsrnOrigin == <<"https://papers.ssrn.com">>

\* title_elem.get('href', '')
Href(title_elem) == IF title_elem.attrib.isNone THEN <<>> ELSE title_elem.attrib.s

SsrnLink(href) ==
    IF href # <<>> /\ Head(href) = "/" THEN SsrnOrigin \o href ELSE href

SsrnRecord(paper_div) ==
    [title |-> Str(Strip(paper_div.title.text.s)),
     summary |-> IF paper_div.abstract.present
                 THEN Str(Prefix(Strip(paper_div.abstract.text.s), SummaryMaxLen))
                 ELSE Str(<<"No abstract available">>),
     link |-> Str(SsrnLink(Href(paper_div.title))),
     source |-> Str(<<"SSRN">>)]

SsrnItem(paper_div) ==
    IF paper_div.title.present THEN <<SsrnRecord(paper_div)>> ELSE <<>>

SsrnItems(items, max_results) ==
    Concat([i \in 1..Min(Len(items), max_results) |-> SsrnItem(items[i])])

search_ssrn(response, max_results) ==
    IF response.error THEN Return(<<>>)
    ELSE IF response.status_code # HttpOk THEN Return(<<>>)
    ELSE Return(SsrnItems(response.items, max_results))

(* ------------------------------ RePEc --------------------------------- *)

\* the body of the per-item try: TRUE when it raises
RepecItemRaises(item) ==
    \/ ~item.title.present
    \/ item.description.present /\ item.description.text.isNone
    \/ ~item.link.present

\* series_code.split(':')[-1]
SeriesName(series_code) == series_code[Len(series_code)]

RepecRecord(item, series_code) ==
    [title |-> item.title.text,
     summary |-> IF item.description.present
                 THEN Str(Prefix(item.description.text.s, SummaryMaxLen))
                 ELSE Str(<<"No abstract">>),
     link |-> item.link.text,
     source |-> Str(<<"Working Paper (", SeriesName(series_code), ")">>)]

RepecItem(item, series_code) ==
    IF RepecItemRaises(item) THEN <<>> ELSE <<RepecRecord(item, series_code)>>

\* one iteration of the loop over the series: the records appended
RepecSeries(response, series_code) ==
    IF response.error THEN <<>>
    ELSE IF response.status_code # HttpOk THEN <<>>
    ELSE IF ~response.parses THEN <<>>
    ELSE Concat([i \in 1..Min(Len(response.items), RepecMaxItems) |->
                    RepecItem(response.items[i], series_code)])

search_repec_working_papers(responses) ==
    Return(Concat([k \in 1..Len(working_paper_series) |->
                      RepecSeries(responses[k], working_paper_series[k])]))

(* ---------------------------- composer -------------------------------- *)

\* how an f-string renders a field
Render(t) == IF t.isNone THEN <<"None">> ELSE t.s

NoPrompt == [focus |-> "", list |-> <<>>]

\* the listing without the [:40] slice
Listing_uncapped(papers) ==
    [i \in 1..Len(papers) |->
        [index |-> i,
         source |-> Render(papers[i].source),
         title |-> Render(papers[i].title),
         link |-> Render(papers[i].link)]]

\* enumerate(papers[:40], 1): one numbered entry per record of the prefix
Listing(papers) ==
    [i \in 1..Min(Len(papers), ListingCap) |->
        [index |-> i,
         source |-> Render(papers[i].source),
         title |-> Render(papers[i].title),
         link |-> Render(papers[i].link)]]

Prompt(papers, research_focus) ==
    [focus |-> research_focus, list |-> Listing(papers)]

\* generate_summary without the early return on an empty list
generate_summary_always_asks(papers, research_focus, has_client, llm) ==
    LET p == Prompt(papers, research_focus) IN
    IF ~has_client
    THEN [raised |-> FALSE,
          value |-> <<"Error with Gemini: ", "no attribute 'client'">>,
          prompt |-> p, calls |-> <<>>]
    ELSE IF llm = "raise"
    THEN [raised |-> FALSE, value |-> <<"Error with Gemini: ", "api error">>,
          prompt |-> p, calls |-> <<p>>]
    ELSE [raised |-> FALSE, value |-> <<"response.text">>,
          prompt |-> p, calls |-> <<p>>]

\* generate_summary without the try around the client call
generate_summary_unguarded(papers, research_focus, has_client, llm) ==
    IF papers = <<>>
    THEN [raised |-> FALSE, value |-> <<"No new papers found.">>,
          prompt |-> NoPrompt, calls |-> <<>>]
    ELSE LET p == Prompt(papers, research_focus) IN
         IF ~has_client
         THEN [raised |-> TRUE, value |-> <<>>, prompt |-> p, calls |-> <<>>]
         ELSE IF llm = "raise"
         THEN [raised |-> TRUE, value |-> <<>>, prompt |-> p, calls |-> <<p>>]
         ELSE [raised |-> FALSE, value |-> <<"response.text">>,
               prompt |-> p, calls |-> <<p>>]

\* value: the string returned; prompt: the prompt built; calls: the prompts
\* handed to the summarization client.  llm is what the client does with a
\* prompt: "text" (it answers) or "raise".
generate_summary(papers, research_focus, has_client, llm) ==
    IF papers = <<>>
    THEN [raised |-> FALSE, value |-> <<"No new papers found.">>,
          prompt |-> NoPrompt, calls |-> <<>>]
    ELSE LET p == Prompt(papers, research_focus) IN
         IF ~has_client
         THEN [raised |-> FALSE,
               value |-> <<"Error with Gemini: ", "no attribute 'client'">>,
               prompt |-> p, calls |-> <<>>]
         ELSE IF llm = "raise"
         THEN [raised |-> FALSE,
               value |-> <<"Error with Gemini: ", "api error">>,
               prompt |-> p, calls |-> <<p>>]
         ELSE [raised |-> FALSE, value |-> <<"response.text">>,
               prompt |-> p, calls |-> <<p>>]

(* ---------------------------- notifier -------------------------------- *)

\* send_email without its try: a delivery failure reaches the caller
send_email_propagating(subject, body, email_address, smtp) ==
    [raised |-> (smtp # "sent"),
     value |-> (smtp = "sent"),
     attempts |-> << [Subject |-> subject, From |-> email_address,
                      To |-> email_address, body |-> body,
                      outcome |-> smtp] >>]

\* value: the boolean returned; attempts: the deliveries attempted over
\* SMTP.  smtp is what the mail transport does: "sent", "auth_error" or
\* "connect_error".
send_email(subject, body, email_address, smtp) ==
    [raised |-> FALSE,
     value |-> (smtp = "sent"),
     attempts |-> << [Subject |-> subject, From |-> email_address,
                      To |-> email_address, body |-> body,
                      outcome |-> smtp] >>]

(* ------------------------------ inputs -------------------------------- *)

TitleStrings == SeqsUpTo(Chars, MaxTitleLen)

\* ElementTree gives None, never '', for an element without text
XmlTexts(S) == {None} \cup {Str(s) : s \in S \ {<<>>}}
XmlElems(S) == {Missing} \cup {Elem(t) : t \in XmlTexts(S)}

\* feeds of at most MaxItems items of Plain, at most one of them replaced by
\* an item of Rich
Feeds(Rich, Plain) ==
    LET base == SeqsUpTo(Plain, MaxItems) IN
    base \cup {[f EXCEPT ![p] = r] :
                  <<f, p, r>> \in {x \in base \X (1..MaxItems) \X Rich :
                                      x[2] <= Len(x[1])}}

TransportError == [error |-> TRUE, status_code |-> 0, parses |-> FALSE, items |-> <<>>]
HttpStatus(code, items) ==
    [error |-> FALSE, status_code |-> code, parses |-> TRUE, items |-> items]
BadBody == [error |-> FALSE, status_code |-> HttpOk, parses |-> FALSE, items |-> <<>>]

\* every outcome of one GET: a transport error, a 404 or 500 with a body, a
\* 200 whose body does not parse, a 200 with a feed
Responses(feeds, plain) ==
    {TransportError, BadBody}
    \cup {HttpStatus(c, f) : c \in {404, 500}, f \in SeqsUpTo(plain, 1)}
    \cup {HttpStatus(HttpOk, f) : f \in feeds}

Now == {NowDay * TicksPerDay + t : t \in 0..(TicksPerDay - 1)}

PubDays == (NowDay - DaysBack - 1)..(NowDay - DaysBack + 1)

Timestamps == {<<d, t>> : d \in PubDays, t \in 0..(TicksPerDay - 1)}

ArxivEntryOf(published, title, summary, id, category) ==
    [published |-> published, title |-> title, summary |-> summary,
     id |-> id, primary_category |-> category]

ArxivRich ==
    {ArxivEntryOf(p, t, s, i, c) :
        p \in {Missing, Elem(None), Elem(Str(<<-1, 0>>))}
              \cup {Elem(Str(ts)) : ts \in Timestamps},
        t \in XmlElems(TitleStrings),
        s \in XmlElems({<<"a">>}),
        i \in XmlElems({<<"u">>}),
        c \in {Missing, ElemAttr(None, Str(<<"econ.GN">>))}}

ArxivGood(title) ==
    ArxivEntryOf(Elem(Str(<<NowDay, 0>>)), Elem(Str(title)), Elem(Str(<<"a">>)),
                 Elem(Str(<<"u">>)), ElemAttr(None, Str(<<"econ.GN">>)))

ArxivPlain == {ArxivGood(<<"a">>)}

SsrnDivOf(title, abstract) == [title |-> title, abstract |-> abstract]

\* BeautifulSoup's .text is always a string; href is absent, empty,
\* relative or absolute
Hrefs == {None, Str(<<>>), Str(<<"/", "p">>), Str(<<"h">>)}

SsrnRich ==
    {SsrnDivOf(t, a) :
        t \in {Missing} \cup {ElemAttr(Str(s), h) : s \in TitleStrings, h \in Hrefs},
        a \in {Missing, Elem(Str(<<"a">>))}}

SsrnGood(title) ==
    SsrnDivOf(ElemAttr(Str(title), Str(<<"/", "p">>)), Elem(Str(<<"a">>)))

SsrnPlain == {SsrnGood(<<"a">>)}

RepecItemOf(title, description, link) ==
    [title |-> title, description |-> description, link |-> link]

RepecRich ==
    {RepecItemOf(t, d, l) :
        t \in XmlElems(TitleStrings),
        d \in XmlElems({<<"a">>}),
        l \in XmlElems({<<"u">>})}

RepecGood(title) ==
    RepecItemOf(Elem(Str(title)), Elem(Str(<<"a">>)), Elem(Str(<<"u">>)))

RepecPlain == {RepecGood(<<"a">>)}

\* the other series' outcomes while one series is given every outcome
RepecOthers == {TransportError, HttpStatus(HttpOk, <<RepecGood(<<"a">>)>>)}

SeriesIndex == DOMAIN working_paper_series

\* one response per series: every combination of RepecOthers, and series k
\* given any outcome while the others all fail or all succeed
RepecResponses ==
    [SeriesIndex -> RepecOthers]
    \cup {[j \in SeriesIndex |-> IF j = k THEN r ELSE o] :
             <<o, k, r>> \in RepecOthers \X SeriesIndex
                             \X Responses(Feeds(RepecRich, RepecPlain), RepecPlain)}

Pool ==
    << [title |-> Str(<<"a">>), summary |-> Str(<<"a">>), link |-> Str(<<"u">>),
        source |-> Str(<<"SSRN">>)],
       [title |-> Str(<<"a", "SP", "a">>), summary |-> Str(<<"a">>),
        link |-> Str(<<"u">>), source |-> Str(<<"arXiv (", "Econ", ")">>)],
       [title |-> None, summary |-> Str(<<"No abstract">>), link |-> None,
        source |-> Str(<<"Working Paper (", "nberwo", ")">>)] >>

\* the list of length n whose i-th record is Pool[(i + off) % 3 + 1]
PaperList(n, off) == [i \in 1..n |-> Pool[((i + off) % Len(Pool)) + 1]]

EnvValues == {None, Str(<<>>), Str(<<"a">>)}

\* the feeds of the __main__ run: a well-formed item, one whose title
\* spans two lines, one without a title
ArxivSample ==
    ArxivPlain \cup {ArxivGood(<<"a", "NL", "a">>),
                     ArxivEntryOf(Elem(Str(<<NowDay, 0>>)), Missing, Elem(Str(<<"a">>)),
                                  Elem(Str(<<"u">>)), Missing)}

SsrnSample ==
    SsrnPlain \cup {SsrnGood(<<"a", "NL", "a">>), SsrnDivOf(Missing, Missing)}

MainArxivResponses == Responses(SeqsUpTo(ArxivSample, MaxItems), ArxivPlain)
MainSsrnResponses == Responses(SeqsUpTo(SsrnSample, MaxItems), SsrnPlain)
MainRepecResponses == [SeriesIndex -> RepecOthers]

LlmOutcomes == {"text", "raise"}
SmtpOutcomes == {"sent", "auth_error", "connect_error"}

(* ------------------------------ state --------------------------------- *)

NotExited == -1

Init ==
    /\ pc = "start"
    /\ call = "none"
    /\ args = <<>>
    /\ ret = <<>>
    /\ env = [GOOGLE_API_KEY |-> None, EMAIL_ADDRESS |-> None, EMAIL_PASSWORD |-> None]
    /\ client_ok = FALSE
    /\ all_papers = <<>>
    /\ returned = <<>>
    /\ digest = <<>>
    /\ prompt = NoPrompt
    /\ llm_calls = <<>>
    /\ mail_log = <<>>
    /\ http_log = <<>>
    /\ exit_status = NotExited

(* ------------------- the methods, called directly --------------------- *)

CallSearchArxiv ==
    /\ pc = "start"
    /\ \E response \in Responses(Feeds(ArxivRich, ArxivPlain), ArxivPlain), now \in Now :
          /\ args' = [response |-> response, now |-> now]
          /\ ret' = search_arxiv(response, now, DaysBack)
    /\ call' = "search_arxiv"
    /\ http_log' = <<"arxiv">>
    /\ pc' = "returned"
    /\ UNCHANGED <<env, client_ok, all_papers, returned, digest, prompt,
                   llm_calls, mail_log, exit_status>>

CallSearchSsrn ==
    /\ pc = "start"
    /\ \E response \in Responses(Feeds(SsrnRich, SsrnPlain), SsrnPlain) :
          /\ args' = [response |-> response]
          /\ ret' = search_ssrn(response, SsrnMaxResults)
    /\ call' = "search_ssrn"
    /\ http_log' = <<"ssrn">>
    /\ pc' = "returned"
    /\ UNCHANGED <<env, client_ok, all_papers, returned, digest, prompt,
                   llm_calls, mail_log, exit_status>>

CallSearchRepec ==
    /\ pc = "start"
    /\ \E responses \in RepecResponses :
          /\ args' = [responses |-> responses]
          /\ ret' = search_repec_working_papers(responses)
    /\ call' = "search_repec_working_papers"
    /\ http_log' = [k \in SeriesIndex |-> SeriesName(working_paper_series[k])]
    /\ pc' = "returned"
    /\ UNCHANGED <<env, client_ok, all_papers, returned, digest, prompt,
                   llm_calls, mail_log, exit_status>>

CallGenerateSummary ==
    /\ pc = "start"
    /\ \E n \in 0..MaxPapers, off \in 0..(Len(Pool) - 1),
          has_client \in BOOLEAN, llm \in LlmOutcomes :
          LET papers == PaperList(n, off)
              g == generate_summary(papers, FOCUS, has_client, llm) IN
          /\ args' = [papers |-> papers, llm |-> llm]
          /\ client_ok' = has_client
          /\ ret' = [raised |-> g.raised, value |-> g.value]
          /\ prompt' = g.prompt
          /\ llm_calls' = g.calls
    /\ call' = "generate_summary"
    /\ pc' = "returned"
    /\ UNCHANGED <<env, all_papers, returned, digest, mail_log, http_log, exit_status>>

(* ------------------------- the __main__ run --------------------------- *)

\* all_papers = papers
Extend_overwrite(list, papers) == papers

\* all_papers += papers
Extend(list, papers) == list \o papers

\* not any([GOOGLE_KEY, EMAIL, PASS])
SecretsMissing_if_all(e) ==
    ~(Truthy(e.GOOGLE_API_KEY) \/ Truthy(e.EMAIL_ADDRESS) \/ Truthy(e.EMAIL_PASSWORD))

\* not all([GOOGLE_KEY, EMAIL, PASS])
SecretsMissing(e) ==
    ~(Truthy(e.GOOGLE_API_KEY) /\ Truthy(e.EMAIL_ADDRESS) /\ Truthy(e.EMAIL_PASSWORD))

MainSecrets ==
    /\ pc = "start"
    /\ \E k \in EnvValues, a \in EnvValues, p \in EnvValues :
          env' = [GOOGLE_API_KEY |-> k, EMAIL_ADDRESS |-> a, EMAIL_PASSWORD |-> p]
    /\ call' = "main"
    /\ IF SecretsMissing(env')
       THEN pc' = "exited" /\ exit_status' = 1
       ELSE pc' = "construct" /\ exit_status' = exit_status
    /\ UNCHANGED <<args, ret, client_ok, all_papers, returned, digest, prompt,
                   llm_calls, mail_log, http_log>>

\* ResearchMonitor(...): the client is created, or the constructor's except
\* swallows the failure and the object has no client
MainConstruct ==
    /\ pc = "construct"
    /\ \E ok \in BOOLEAN : client_ok' = ok
    /\ all_papers' = <<>>
    /\ pc' = "arxiv"
    /\ UNCHANGED <<call, args, ret, env, returned, digest, prompt, llm_calls,
                   mail_log, http_log, exit_status>>

\* a statement of __main__ that calls an adapter: an exception that escapes
\* the adapter ends the process with a traceback and status 1
Collect(r, next) ==
    IF r.raised
    THEN /\ pc' = "crashed"
         /\ exit_status' = 1
         /\ UNCHANGED <<all_papers, returned>>
    ELSE /\ pc' = next
         /\ all_papers' = Extend(all_papers, r.value)
         /\ returned' = Append(returned, r.value)
         /\ exit_status' = exit_status

MainArxiv ==
    /\ pc = "arxiv"
    /\ \E response \in MainArxivResponses, now \in Now :
          Collect(search_arxiv(response, now, DaysBack), "ssrn")
    /\ http_log' = Append(http_log, "arxiv")
    /\ UNCHANGED <<call, args, ret, env, client_ok, digest, prompt, llm_calls, mail_log>>

MainSsrn ==
    /\ pc = "ssrn"
    /\ \E response \in MainSsrnResponses :
          Collect(search_ssrn(response, SsrnMaxResults), "repec")
    /\ http_log' = Append(http_log, "ssrn")
    /\ UNCHANGED <<call, args, ret, env, client_ok, digest, prompt, llm_calls, mail_log>>

MainRepec ==
    /\ pc = "repec"
    /\ \E responses \in MainRepecResponses :
          Collect(search_repec_working_papers(responses), "report")
    /\ http_log' = http_log \o [k \in SeriesIndex |-> SeriesName(working_paper_series[k])]
    /\ UNCHANGED <<call, args, ret, env, client_ok, digest, prompt, llm_calls, mail_log>>

\* if all_papers: digest = monitor.generate_summary(all_papers, FOCUS)
MainSummarize ==
    /\ pc = "report"
    /\ all_papers # <<>>
    /\ \E llm \in LlmOutcomes :
          LET g == generate_summary(all_papers, FOCUS, client_ok, llm) IN
          /\ prompt' = g.prompt
          /\ llm_calls' = llm_calls \o g.calls
          /\ IF g.raised
             THEN pc' = "crashed" /\ exit_status' = 1 /\ digest' = digest
             ELSE pc' = "send" /\ exit_status' = exit_status /\ digest' = g.value
    /\ UNCHANGED <<call, args, ret, env, client_ok, all_papers, returned,
                   mail_log, http_log>>

\* a statement of __main__ that calls send_email and then falls off the end
\* of the script
Deliver(m) ==
    /\ mail_log' = mail_log \o m.attempts
    /\ IF m.raised
       THEN pc' = "crashed" /\ exit_status' = 1
       ELSE pc' = "done" /\ exit_status' = 0

MainSendDigest ==
    /\ pc = "send"
    /\ \E smtp \in SmtpOutcomes :
          Deliver(send_email(<<"Weekly Econ Research: ", "%b %d">>, digest,
                             env.EMAIL_ADDRESS, smtp))
    /\ UNCHANGED <<call, args, ret, env, client_ok, all_papers, returned, digest,
                   prompt, llm_calls, http_log>>

NoPapersNotice ==
    <<"No new papers matched your criteria this week. This is normal during holidays. The script is running correctly.">>

\* else: the notification email
MainSendNotice ==
    /\ pc = "report"
    /\ all_papers = <<>>
    /\ \E smtp \in SmtpOutcomes :
          Deliver(send_email(<<"Weekly Econ: No New Papers (", "%b %d", ")">>,
                             NoPapersNotice, env.EMAIL_ADDRESS, smtp))
    /\ UNCHANGED <<call, args, ret, env, client_ok, all_papers, returned, digest,
                   prompt, llm_calls, http_log>>

MainNext ==
    \/ MainSecrets
    \/ MainConstruct
    \/ MainArxiv
    \/ MainSsrn
    \/ MainRepec
    \/ MainSummarize
    \/ MainSendDigest
    \/ MainSendNotice

Next ==
    \/ CallSearchArxiv
    \/ CallSearchSsrn
    \/ CallSearchRepec
    \/ CallGenerateSummary
    \/ MainNext

Spec == Init /\ [][Next]_vars

(* ----------------------------- properties ----------------------------- *)

\* a method was called directly and has returned
Called(name) == pc = "returned" /\ call = name

Adapters == {"search_arxiv", "search_ssrn", "search_repec_working_papers"}

\* the request failed: a transport error, a status other than 200, or a
\* body that does not parse
Failed(response) ==
    response.error \/ response.status_code # HttpOk \/ ~response.parses

SeriesSource(k) == Str(<<"Working Paper (", working_paper_series[k][3], ")">>)

\* C1: every record an adapter returns has a title, a link and a source
\* that are present and non-empty.
C1_RequiredFieldsPresent ==
    (pc = "returned" /\ call \in Adapters) =>
        \A i \in DOMAIN ret.value :
            /\ ~ret.value[i].title.isNone /\ ret.value[i].title.s # <<>>
            /\ ~ret.value[i].link.isNone /\ ret.value[i].link.s # <<>>
            /\ ~ret.value[i].source.isNone /\ ret.value[i].source.s # <<>>

\* C2: whatever the outcome of the HTTP request, an adapter returns a list
\* and raises nothing; a failed request to arXiv or SSRN gives the empty
\* list, and a failed RePEc series contributes no record.
C2_AdaptersNeverRaise ==
    /\ (pc = "returned" /\ call \in Adapters) =>
           /\ ~ret.raised
           /\ DOMAIN ret.value = 1..Len(ret.value)
    /\ (Called("search_arxiv") /\ Failed(args.response)) => ret.value = <<>>
    /\ (Called("search_ssrn") /\ Failed(args.response)) => ret.value = <<>>
    /\ Called("search_repec_working_papers") =>
           \A k \in SeriesIndex :
               Failed(args.responses[k]) =>
                   \A i \in DOMAIN ret.value : ret.value[i].source # SeriesSource(k)

\* a RePEc call in which the first series answers with a status other than
\* 200 and a body that holds an item, and the other four series succeed
C2_Witness ==
    /\ Called("search_repec_working_papers")
    /\ ~args.responses[1].error /\ args.responses[1].status_code # HttpOk
    /\ args.responses[1].items # <<>>
    /\ Len(ret.value) = Len(working_paper_series) - 1

SecretsPresent ==
    \A f \in DOMAIN env : ~env[f].isNone /\ env[f].s # <<>>

\* C3: in a run with all three secrets, mail delivery is attempted exactly
\* once, only after the three adapters have returned, nothing ends the run
\* early, and the run ends with exit status 0 whatever the delivery did.
C3_DeliversOnceAndExitsZero ==
    (call = "main" /\ SecretsPresent) =>
        /\ pc # "crashed"
        /\ Len(mail_log) <= 1
        /\ (mail_log # <<>> => Len(returned) = 3 /\ pc = "done")
        /\ (pc = "done" => Len(mail_log) = 1 /\ exit_status = 0)
        /\ (pc # "done" => exit_status = NotExited /\ ENABLED MainNext)

\* a finished run in which every source failed, the summarizer was not
\* asked and the mail server refused the login
C3_Witness ==
    /\ call = "main" /\ pc = "done"
    /\ all_papers = <<>>
    /\ Len(mail_log) = 1 /\ mail_log[1].outcome = "auth_error"
    /\ exit_status = 0

\* C4: the aggregate is the concatenation, in call order, of what the
\* adapters returned, and its length the sum of their lengths; RePEc's list
\* is in series order and holds, for each series, exactly the items of a
\* successful response that have a title and a link element.
C4_AggregateIsConcatenation ==
    /\ (call = "main" /\ pc \in {"report", "send", "done"}) =>
           /\ Len(returned) = 3
           /\ all_papers = returned[1] \o returned[2] \o returned[3]
           /\ Len(all_papers) = Len(returned[1]) + Len(returned[2]) + Len(returned[3])
    /\ (call = "main" /\ pc = "ssrn") => all_papers = returned[1]
    /\ (call = "main" /\ pc = "repec") => all_papers = returned[1] \o returned[2]
    /\ Called("search_repec_working_papers") =>
           /\ \A i, j \in DOMAIN ret.value :
                  i < j => \E k, l \in SeriesIndex :
                               /\ k <= l
                               /\ ret.value[i].source = SeriesSource(k)
                               /\ ret.value[j].source = SeriesSource(l)
           /\ \A k \in SeriesIndex :
                  Cardinality({i \in DOMAIN ret.value :
                                  ret.value[i].source = SeriesSource(k)})
                  = IF Failed(args.responses[k]) THEN 0
                    ELSE Cardinality({i \in DOMAIN args.responses[k].items :
                             /\ args.responses[k].items[i].title.present
                             /\ args.responses[k].items[i].link.present
                             /\ ~(/\ args.responses[k].items[i].description.present
                                  /\ args.responses[k].items[i].description.text.isNone)})

\* a finished run in which arXiv gave records, SSRN failed and some but not
\* all RePEc series gave records
C4_Witness ==
    /\ call = "main" /\ pc = "done"
    /\ Len(returned[1]) = 2
    /\ returned[1][1] # returned[1][2]
    /\ returned[2] = <<>>
    /\ Len(returned[3]) \in 1..(Len(working_paper_series) - 1)

NoPapersSentinel == <<"No new papers found.">>

\* C5: generate_summary of the empty list returns the fixed sentinel and
\* does not call the summarization client; a run whose aggregate is empty
\* never calls the client.
C5_EmptyShortCircuits ==
    /\ (Called("generate_summary") /\ args.papers = <<>>) =>
           /\ ret = Return(NoPapersSentinel)
           /\ llm_calls = <<>>
    /\ (call = "main" /\ all_papers = <<>>) => llm_calls = <<>>

\* generate_summary called with the empty list on a monitor whose client
\* exists and would have answered
C5_Witness ==
    /\ Called("generate_summary")
    /\ args.papers = <<>>
    /\ client_ok /\ args.llm = "text"
    /\ ret.value = NoPapersSentinel

\* the listing built for papers: min(L, 40) entries numbered from 1, entry
\* i carrying the source, title and link of the i-th record
ListingDescribes(list, papers) ==
    /\ Len(list) = Min(Len(papers), ListingCap)
    /\ \A i \in DOMAIN list :
           /\ list[i].index = i
           /\ list[i].source = papers[i].source.s
           /\ list[i].title = (IF papers[i].title.isNone THEN <<"None">>
                               ELSE papers[i].title.s)
           /\ list[i].link = (IF papers[i].link.isNone THEN <<"None">>
                              ELSE papers[i].link.s)

\* C6 as stated: generate_summary of a non-empty list builds the listing
\* and calls the summarization client exactly once with a prompt holding it.
C6_ListingAndOneCall ==
    (Called("generate_summary") /\ args.papers # <<>>) =>
        /\ ListingDescribes(prompt.list, args.papers)
        /\ Len(llm_calls) = 1
        /\ llm_calls[1] = prompt

\* C6 amended: generate_summary of a non-empty list builds the listing;
\* when the monitor has a client the client is called exactly once with a
\* prompt holding the listing, and when the constructor failed to create
\* the client it is not called at all.
C6_ListingAndOneCallWithClient ==
    (Called("generate_summary") /\ args.papers # <<>>) =>
        /\ ListingDescribes(prompt.list, args.papers)
        /\ client_ok => (Len(llm_calls) = 1 /\ llm_calls[1] = prompt)
        /\ ~client_ok => llm_calls = <<>>

\* generate_summary called with more records than the cap, on a monitor
\* with a client
C6_Witness ==
    /\ Called("generate_summary")
    /\ Len(args.papers) > ListingCap
    /\ client_ok
    /\ Len(llm_calls) = 1
    /\ Len(llm_calls[1].list) = ListingCap

\* C7: generate_summary never raises; on a non-empty list, when the client
\* raises or was never created, it returns "Error with Gemini: <message>";
\* a run that asks for a digest has one to hand to send_email.
C7_SummarizerFailureBecomesText ==
    /\ Called("generate_summary") =>
           /\ ~ret.raised
           /\ ret.value # <<>>
    /\ (Called("generate_summary") /\ args.papers # <<>>
          /\ (args.llm = "raise" \/ ~client_ok)) =>
           /\ Len(ret.value) = 2
           /\ ret.value[1] = "Error with Gemini: "
    /\ (call = "main" /\ pc \in {"send", "done"} /\ all_papers # <<>>) =>
           /\ digest # <<>>
           /\ (pc = "done" => mail_log[1].body = digest)

\* generate_summary called with papers on a monitor whose constructor
\* failed to create the client
C7_Witness ==
    /\ Called("generate_summary")
    /\ args.papers # <<>>
    /\ ~client_ok
    /\ ret = Return(<<"Error with Gemini: ", "no attribute 'client'">>)

\* C8: when a secret is absent or empty the process exits with status 1
\* before any fetch, any summarization call and any delivery attempt.
C8_MissingSecretExitsFirst ==
    (call = "main" /\ ~SecretsPresent) =>
        /\ pc = "exited"
        /\ exit_status = 1
        /\ http_log = <<>>
        /\ llm_calls = <<>>
        /\ mail_log = <<>>

\* a run in which the key and the address are set and the password is the
\* empty string
C8_Witness ==
    /\ call = "main" /\ pc = "exited" /\ exit_status = 1
    /\ env.GOOGLE_API_KEY = Str(<<"a">>)
    /\ env.EMAIL_ADDRESS = Str(<<"a">>)
    /\ env.EMAIL_PASSWORD = Str(<<>>)

\* an entry with every element present, with text, and a date that parses
FullyFormed(entry) ==
    /\ entry.published.present /\ ~entry.published.text.isNone
    /\ entry.published.text.s[1] >= 0
    /\ entry.title.present /\ ~entry.title.text.isNone
    /\ entry.summary.present /\ ~entry.summary.text.isNone
    /\ entry.id.present /\ ~entry.id.text.isNone

\* the instant an entry was published, in ticks
PublishedAt(entry) ==
    entry.published.text.s[1] * TicksPerDay + entry.published.text.s[2]

\* C9: search_arxiv keeps a well-formed entry if and only if it was
\* published at or after now - days_back days: of a feed of well-formed
\* entries, the records returned are as many as the entries in the window.
C9_KeptIffInWindow ==
    (/\ Called("search_arxiv")
     /\ ~Failed(args.response)
     /\ \A i \in DOMAIN args.response.items : FullyFormed(args.response.items[i])) =>
        Len(ret.value) =
            Cardinality({i \in DOMAIN args.response.items :
                            PublishedAt(args.response.items[i])
                                >= args.now - DaysBack * TicksPerDay})

\* C10: the title of every record an adapter returns holds no newline and
\* no leading or trailing whitespace.
C10_TitlesNormalized ==
    (pc = "returned" /\ call \in Adapters) =>
        \A i \in DOMAIN ret.value :
            ~ret.value[i].title.isNone =>
                LET t == ret.value[i].title.s IN
                /\ \A j \in DOMAIN t : t[j] # "NL"
                /\ t # <<>> => (t[1] \notin Whitespace /\ t[Len(t)] \notin Whitespace)

====
